---- MODULE Spec2Model ----
(***************************************************************************)
(* Model of backend/app.py: the process bootstrap (API key check, route    *)
(* registration), the tone-conversion relay (an async generator streamed   *)
(* through a StreamingResponse) and the keyword-extraction relay (one      *)
(* awaited chat call on the shared ollama client).                         *)
(*                                                                         *)
(* Text is a sequence of characters; a streamed body is a sequence of      *)
(* fragments.  Every await / yield of the code is a step boundary, so that *)
(* several requests interleave exactly at the suspension points.           *)
(***************************************************************************)
EXTENDS Integers, Sequences, FiniteSets, TLC

VARIABLES env, mainpc, routes, clientReady,
          pc, kind, text, style, status, body, keywords,
          chunk, emitted, stream, gprompt, log,
          chatCalls, callOf

vars == <<env, mainpc, routes, clientReady,
          pc, kind, text, style, status, body, keywords,
          chunk, emitted, stream, gprompt, log,
          chatCalls, callOf>>

bootVars == <<env, mainpc, routes, clientReady>>
convVars == <<body, chunk, emitted, stream, gprompt, log>>
kwVars   == <<keywords, chatCalls, callOf>>

-----------------------------------------------------------------------------
(* Bounds *)

MaxLen    == 2      \* longest request text / chat reply, in characters
MaxChunks == 2      \* most chunks one provider stream emits
NumReqs   == 2      \* requests in flight in the concurrent specification
MaxChunksC == 2     \* most chunks one stream emits in the concurrent specification

-----------------------------------------------------------------------------
(* Data *)

Char       == {" ", "a", "b"}
Whitespace == {" "}

RECURSIVE SeqsUpTo(_, _)
SeqsUpTo(S, n) ==
    IF n = 0 THEN {<<>>}
    ELSE LET shorter == SeqsUpTo(S, n - 1)
         IN  shorter \cup {Append(s, c) : s \in shorter, c \in S}

Texts      == SeqsUpTo(Char, MaxLen)
Styles     == {<<>>, <<"a">>}

\* the fixed message of the except branch
FALLBACK   == <<"!">>

\* chunk.text values a provider stream is driven with
ChunkTexts == {<<>>, <<"a">>, <<"b">>, FALLBACK}

\* inputs of the concurrent specification
TextsC      == {<<>>, <<" ">>, <<"a">>}
ConvTextsC  == {<<"a">>}
StylesC     == {<<"a">>}
ContentsC   == {<<"a">>, <<"b", " ">>}
ChunkTextsC == {<<"a">>, <<"b">>}

\* environment after load_dotenv(): the variable unset, set to "", or set
Unset     == [set |-> FALSE, value |-> ""]
EnvValues == {Unset, [set |-> TRUE, value |-> ""], [set |-> TRUE, value |-> "k"]}

AllRoutes == {"/", "/api/convert", "/api/keywords"}

Pending == [state |-> "pending"]
Failed  == [state |-> "failed"]
Reply(content) == [state |-> "ok", content |-> content]

-----------------------------------------------------------------------------
(* Pure functions *)

\* str.lstrip()
RECURSIVE LStrip(_)
LStrip(s) ==
    IF s = <<>> THEN <<>>
    ELSE IF Head(s) \in Whitespace THEN LStrip(Tail(s))
    ELSE s

\* str.rstrip()
RECURSIVE RStrip(_)
RStrip(s) ==
    IF s = <<>> THEN <<>>
    ELSE IF s[Len(s)] \in Whitespace THEN RStrip(SubSeq(s, 1, Len(s) - 1))
    ELSE s

StripLeftOnly(s) == LStrip(s)

\* str.strip()
Strip(s) == RStrip(LStrip(s))

IsEmptyOnly(t) == t = <<>>

\* `not text.strip()`
IsBlank(t) == Strip(t) = <<>>

KeyUnsetOnly(e) == ~e.set

\* `not GEMINI_API_KEY`
KeyMissing(e) == ~e.set \/ e.value = ""

Falsy(s) == s = <<>>

AlwaysTruthy(s) == TRUE

\* `if chunk.text:`
Truthy(s) == s # <<>>

YieldFront(b, frag) == <<frag>> \o b

\* `yield <fragment>`: the fragment is written to the response body
Yield(b, frag) == Append(b, frag)

\* the f-string prompts embed the request fields verbatim
ConvertPrompt(t, s) == [template |-> "convert", style |-> s, text |-> t]
KeywordPrompt(t)    == [template |-> "keywords", text |-> t]

Reqs == DOMAIN pc

-----------------------------------------------------------------------------
(* Initial states *)

InitOver(R) ==
    /\ env \in EnvValues
    /\ mainpc = "import"
    /\ routes = {}
    /\ clientReady = FALSE
    /\ pc       = [r \in R |-> "idle"]
    /\ kind     = [r \in R |-> "none"]
    /\ text     = [r \in R |-> <<>>]
    /\ style    = [r \in R |-> <<>>]
    /\ status   = [r \in R |-> 0]
    /\ body     = [r \in R |-> <<>>]
    /\ keywords = [r \in R |-> <<>>]
    /\ chunk    = [r \in R |-> <<>>]
    /\ emitted  = [r \in R |-> <<>>]
    /\ stream   = [r \in R |-> "none"]
    /\ gprompt  = [r \in R |-> <<>>]
    /\ log      = {}
    /\ chatCalls = <<>>
    /\ callOf   = [r \in R |-> 0]

Init     == InitOver({1})
InitConc == InitOver(1 .. NumReqs)

-----------------------------------------------------------------------------
(* Process bootstrap *)

\* lines 12-21: read the key, raise ValueError when it is missing
LoadKey ==
    /\ mainpc = "import"
    /\ mainpc' = IF KeyMissing(env) THEN "failed" ELSE "configured"
    /\ UNCHANGED <<env, routes, clientReady, pc, kind, text, style, status>>
    /\ UNCHANGED <<convVars, kwVars>>

\* lines 24-143: create the shared ollama client, register the routes
ModuleBody ==
    /\ mainpc = "configured"
    /\ clientReady' = TRUE
    /\ routes' = AllRoutes
    /\ mainpc' = "imported"
    /\ UNCHANGED <<env, pc, kind, text, style, status>>
    /\ UNCHANGED <<convVars, kwVars>>

\* lines 146-149: uvicorn serves the imported app
Serve ==
    /\ mainpc = "imported"
    /\ mainpc' = "serving"
    /\ UNCHANGED <<env, routes, clientReady, pc, kind, text, style, status>>
    /\ UNCHANGED <<convVars, kwVars>>

Accepts(r, route) ==
    /\ mainpc = "serving"
    /\ route \in routes
    /\ pc[r] = "idle"

\* GET /
ReadRoot(r) ==
    /\ Accepts(r, "/")
    /\ kind'   = [kind EXCEPT ![r] = "root"]
    /\ status' = [status EXCEPT ![r] = 200]
    /\ pc'     = [pc EXCEPT ![r] = "done"]
    /\ UNCHANGED <<bootVars, text, style, convVars, kwVars>>

-----------------------------------------------------------------------------
(* Tone-conversion relay *)

\* POST /api/convert, line 136: the generator object is created (its body has
\* not run yet) and handed to StreamingResponse, which starts a 200 response
ConvertApi(r, t, s) ==
    /\ Accepts(r, "/api/convert")
    /\ kind'   = [kind EXCEPT ![r] = "convert"]
    /\ text'   = [text EXCEPT ![r] = t]
    /\ style'  = [style EXCEPT ![r] = s]
    /\ status' = [status EXCEPT ![r] = 200]
    /\ pc'     = [pc EXCEPT ![r] = "gen_created"]
    /\ UNCHANGED <<bootVars, convVars, kwVars>>

SetupFaultPropagates == "fault"

\* lines 88-91 are inside the try: a fault raised there enters the handler
OnSetupFault == "except"

\* lines 66-91 up to the await: build the prompt, construct the model (which
\* may raise), call generate_content_async and suspend
GenStart(r, constructed) ==
    /\ pc[r] = "gen_created"
    /\ gprompt' = [gprompt EXCEPT ![r] = <<ConvertPrompt(text[r], style[r])>>]
    /\ IF constructed
       THEN /\ pc' = [pc EXCEPT ![r] = "await_stream"]
            /\ stream' = [stream EXCEPT ![r] = "requested"]
       ELSE /\ pc' = [pc EXCEPT ![r] = OnSetupFault]
            /\ stream' = [stream EXCEPT ![r] = "fault_construct"]
    /\ UNCHANGED <<bootVars, kind, text, style, status, body, chunk, emitted, log, kwVars>>

\* line 91 resumes: the provider opened the stream, or the call raised
StreamOpened(r, ok) ==
    /\ pc[r] = "await_stream"
    /\ IF ok
       THEN /\ pc' = [pc EXCEPT ![r] = "iter"]
            /\ stream' = [stream EXCEPT ![r] = "open"]
       ELSE /\ pc' = [pc EXCEPT ![r] = OnSetupFault]
            /\ stream' = [stream EXCEPT ![r] = "fault_call"]
    /\ UNCHANGED <<bootVars, kind, text, style, status, body, chunk, emitted, gprompt, log, kwVars>>

\* line 93, __anext__ returns the next chunk of this request's stream
NextChunk(r, t) ==
    /\ pc[r] = "iter"
    /\ emitted' = [emitted EXCEPT ![r] = Append(@, t)]
    /\ chunk'   = [chunk EXCEPT ![r] = t]
    /\ pc'      = [pc EXCEPT ![r] = "got"]
    /\ UNCHANGED <<bootVars, kind, text, style, status, body, stream, gprompt, log, kwVars>>

\* line 93, __anext__ raises StopAsyncIteration: the generator returns
StreamEnd(r) ==
    /\ pc[r] = "iter"
    /\ stream' = [stream EXCEPT ![r] = "complete"]
    /\ pc'     = [pc EXCEPT ![r] = "done"]
    /\ UNCHANGED <<bootVars, kind, text, style, status, body, chunk, emitted, gprompt, log, kwVars>>

\* line 93, __anext__ raises: the provider failed mid-stream
StreamFault(r) ==
    /\ pc[r] = "iter"
    /\ stream' = [stream EXCEPT ![r] = "fault_stream"]
    /\ pc'     = [pc EXCEPT ![r] = "except"]
    /\ UNCHANGED <<bootVars, kind, text, style, status, body, chunk, emitted, gprompt, log, kwVars>>

\* lines 95-96: forward the chunk's text when it has any, then loop
ForwardChunk(r) ==
    /\ pc[r] = "got"
    /\ body' = [body EXCEPT ![r] = IF Truthy(chunk[r]) THEN Yield(@, chunk[r]) ELSE @]
    /\ pc'   = [pc EXCEPT ![r] = "iter"]
    /\ UNCHANGED <<bootVars, kind, text, style, status, chunk, emitted, stream, gprompt, log, kwVars>>

HandleFaultSilently(r) ==
    /\ pc[r] = "except"
    /\ log'  = log \cup {r}
    /\ pc'   = [pc EXCEPT ![r] = "done"]
    /\ UNCHANGED <<bootVars, kind, text, style, status, body, chunk, emitted, stream, gprompt, kwVars>>

\* lines 97-99: log the error, yield the fallback message, end the generator
HandleFault(r) ==
    /\ pc[r] = "except"
    /\ log'  = log \cup {r}
    /\ body' = [body EXCEPT ![r] = Yield(@, FALLBACK)]
    /\ pc'   = [pc EXCEPT ![r] = "done"]
    /\ UNCHANGED <<bootVars, kind, text, style, status, chunk, emitted, stream, gprompt, kwVars>>

-----------------------------------------------------------------------------
(* Keyword-extraction relay *)

\* POST /api/keywords, lines 142 and 101-128 up to the await: return "" for
\* blank text, otherwise send one chat request on the shared client
KeywordsApi(r, t) ==
    /\ Accepts(r, "/api/keywords")
    /\ clientReady
    /\ kind' = [kind EXCEPT ![r] = "keywords"]
    /\ text' = [text EXCEPT ![r] = t]
    /\ IF IsBlank(t)
       THEN /\ keywords' = [keywords EXCEPT ![r] = <<(<<>>)>>]
            /\ status'   = [status EXCEPT ![r] = 200]
            /\ pc'       = [pc EXCEPT ![r] = "done"]
            /\ UNCHANGED <<chatCalls, callOf>>
       ELSE /\ chatCalls' = Append(chatCalls, [prompt |-> KeywordPrompt(t), reply |-> Pending])
            /\ callOf'    = [callOf EXCEPT ![r] = Len(chatCalls) + 1]
            /\ pc'        = [pc EXCEPT ![r] = "await_chat"]
            /\ UNCHANGED <<keywords, status>>
    /\ UNCHANGED <<bootVars, style, convVars>>

\* the local provider answers chat call c with a complete message
OllamaRespond(c, content) ==
    /\ c \in 1 .. Len(chatCalls)
    /\ chatCalls[c].reply = Pending
    /\ chatCalls' = [chatCalls EXCEPT ![c].reply = Reply(content)]
    /\ UNCHANGED <<bootVars, pc, kind, text, style, status, convVars, keywords, callOf>>

\* chat call c fails
OllamaFault(c) ==
    /\ c \in 1 .. Len(chatCalls)
    /\ chatCalls[c].reply = Pending
    /\ chatCalls' = [chatCalls EXCEPT ![c].reply = Failed]
    /\ UNCHANGED <<bootVars, pc, kind, text, style, status, convVars, keywords, callOf>>

LatestReply(r) == chatCalls[Len(chatCalls)].reply

\* the awaiting coroutine is resumed with the outcome of its own chat call
MyReply(r) == chatCalls[callOf[r]].reply

ChatFaultSwallowed == [pc |-> "done", status |-> 200, keywords |-> <<(<<>>)>>]

\* no try around line 125 nor in keywords_api: the exception leaves the
\* handler and the framework answers 500 without a keywords payload
ChatFaultResult == [pc |-> "fault", status |-> 500, keywords |-> <<>>]

\* lines 125-129 and 143 after the await
KwResume(r) ==
    /\ pc[r] = "await_chat"
    /\ MyReply(r) # Pending
    /\ IF MyReply(r).state = "ok"
       THEN /\ keywords' = [keywords EXCEPT ![r] = <<Strip(MyReply(r).content)>>]
            /\ status'   = [status EXCEPT ![r] = 200]
            /\ pc'       = [pc EXCEPT ![r] = "done"]
       ELSE /\ keywords' = [keywords EXCEPT ![r] = ChatFaultResult.keywords]
            /\ status'   = [status EXCEPT ![r] = ChatFaultResult.status]
            /\ pc'       = [pc EXCEPT ![r] = ChatFaultResult.pc]
    /\ UNCHANGED <<bootVars, kind, text, style, convVars, chatCalls, callOf>>

-----------------------------------------------------------------------------
(* Specifications *)

\* one request at a time, inputs from the full bounded sets
Next ==
    \/ LoadKey
    \/ ModuleBody
    \/ Serve
    \/ \E r \in Reqs :
        \/ ReadRoot(r)
        \/ \E t \in Texts, s \in Styles : ConvertApi(r, t, s)
        \/ \E ok \in BOOLEAN : GenStart(r, ok)
        \/ \E ok \in BOOLEAN : StreamOpened(r, ok)
        \/ \E t \in ChunkTexts : Len(emitted[r]) < MaxChunks /\ NextChunk(r, t)
        \/ StreamEnd(r)
        \/ StreamFault(r)
        \/ ForwardChunk(r)
        \/ HandleFault(r)
        \/ \E t \in Texts : KeywordsApi(r, t)
        \/ KwResume(r)
    \/ \E c \in 1 .. Len(chatCalls) :
        \/ \E content \in Texts : OllamaRespond(c, content)
        \/ OllamaFault(c)

Spec == Init /\ [][Next]_vars

\* several requests in flight, interleaved at the suspension points
NextConc ==
    \/ LoadKey
    \/ ModuleBody
    \/ Serve
    \/ \E r \in Reqs :
        \/ ReadRoot(r)
        \/ \E t \in ConvTextsC, s \in StylesC : ConvertApi(r, t, s)
        \/ \E ok \in BOOLEAN : GenStart(r, ok)
        \/ \E ok \in BOOLEAN : StreamOpened(r, ok)
        \/ \E t \in ChunkTextsC : Len(emitted[r]) < MaxChunksC /\ NextChunk(r, t)
        \/ StreamEnd(r)
        \/ StreamFault(r)
        \/ ForwardChunk(r)
        \/ HandleFault(r)
        \/ \E t \in TextsC : KeywordsApi(r, t)
        \/ KwResume(r)
    \/ \E c \in 1 .. Len(chatCalls) :
        \/ \E content \in ContentsC : OllamaRespond(c, content)
        \/ OllamaFault(c)

SpecConc == InitConc /\ [][NextConc]_vars

-----------------------------------------------------------------------------
(* Vocabulary of the properties, stated without the relay's own operators *)

\* the chunks that carry text, in order
Fragments(q) == SelectSeq(q, LAMBDA f : Len(f) > 0)

\* concatenation of a sequence of fragments
RECURSIVE Concat(_)
Concat(q) == IF q = <<>> THEN <<>> ELSE Head(q) \o Concat(Tail(q))

WhitespaceOnly(t) == \A i \in 1 .. Len(t) : t[i] \in Whitespace

\* k is c without its leading and trailing whitespace
IsTrimOf(k, c) ==
    \E i \in 1 .. Len(c) + 1 : \E j \in 0 .. Len(c) :
        /\ k = SubSeq(c, i, j)
        /\ \A n \in 1 .. Len(c) : (n < i \/ n > j) => c[n] \in Whitespace
        /\ k # <<>> => (k[1] \notin Whitespace /\ k[Len(k)] \notin Whitespace)

SetupFaults  == {"fault_construct", "fault_call"}
StreamFaults == SetupFaults \cup {"fault_stream"}

KeyAbsent == env.set = FALSE \/ env.value = ""

Converts == {r \in Reqs : kind[r] = "convert"}
KwReqs   == {r \in Reqs : kind[r] = "keywords"}

-----------------------------------------------------------------------------
(* Properties *)

\* C1: when the provider stream of a conversion completes without failure,
\* the response body is exactly the provider's text-carrying fragments in
\* emission order (none reordered, duplicated or lost), and the concatenated
\* body equals the concatenation of everything the provider emitted.
C1_OrderPreserved ==
    \A r \in Converts :
        stream[r] = "complete" =>
            /\ body[r] = Fragments(emitted[r])
            /\ Concat(body[r]) = Concat(emitted[r])

C1_Witness ==
    \E r \in Converts :
        /\ stream[r] = "complete"
        /\ pc[r] = "done"
        /\ emitted[r] = << <<"a">>, <<"b">> >>
        /\ body[r] = << <<"a">>, <<"b">> >>

\* C2: when the provider fails after k >= 0 fragments, the finished response
\* is the fragments already forwarded followed by exactly one fallback
\* fragment, which is last; before the handler has run nothing but the
\* forwarded fragments is in the body, and the failure is logged.
C2_FallbackLastOnce ==
    \A r \in Converts :
        stream[r] \in StreamFaults =>
            /\ pc[r] \in {"except", "done"}
            /\ pc[r] = "except" => body[r] = Fragments(emitted[r])
            /\ pc[r] = "done" =>
                /\ body[r] = Fragments(emitted[r]) \o <<FALLBACK>>
                /\ r \in log

C2_Witness ==
    \E r \in Converts :
        /\ stream[r] = "fault_stream"
        /\ pc[r] = "done"
        /\ emitted[r] = << <<"a">> >>
        /\ body[r] = << <<"a">>, FALLBACK >>

\* C3 as stated: a fault in the streaming setup (model construction or the
\* initial streaming call) is not caught by the relay and does not end as a
\* 200 response carrying the fallback fragment.
C3_SetupFaultPropagates ==
    \A r \in Converts :
        stream[r] \in SetupFaults =>
            /\ pc[r] # "except"
            /\ ~(status[r] = 200 /\ body[r] = <<FALLBACK>>)

\* C3 amended: a fault in the streaming setup is caught by the relay's
\* handler; the response is a 200 whose whole body is the fallback fragment.
C3_SetupFaultCaught ==
    \A r \in Converts :
        stream[r] \in SetupFaults =>
            /\ pc[r] \in {"except", "done"}
            /\ status[r] = 200
            /\ emitted[r] = <<>>
            /\ body[r] = IF pc[r] = "done" THEN <<FALLBACK>> ELSE <<>>

C3_Witness ==
    \E r \in Converts :
        /\ stream[r] = "fault_call"
        /\ pc[r] = "done"
        /\ status[r] = 200
        /\ body[r] = <<FALLBACK>>

\* C4 as stated: a finished conversion of non-empty text and style is a 200
\* whose body concatenates to non-empty text, or is the single fallback
\* fragment when the provider failed; the body is never empty.
C4_NeverEmptyBody ==
    \A r \in Converts :
        (pc[r] = "done" /\ text[r] # <<>> /\ style[r] # <<>>) =>
            /\ status[r] = 200
            /\ \/ Concat(body[r]) # <<>>
               \/ (stream[r] \in StreamFaults /\ body[r] = <<FALLBACK>>)

\* C4 amended: a finished conversion of non-empty text and style is a 200
\* whose body either concatenates to non-empty text, ends with the fallback
\* fragment when the provider failed, or is empty, which happens exactly when
\* the provider stream completed without emitting any text.
C4_EmptyOnlyWhenProviderSilent ==
    \A r \in Converts :
        (pc[r] = "done" /\ text[r] # <<>> /\ style[r] # <<>>) =>
            /\ status[r] = 200
            /\ body[r] # <<>> => Concat(body[r]) # <<>>
            /\ stream[r] \in StreamFaults => body[r][Len(body[r])] = FALLBACK
            /\ body[r] = <<>> <=> (stream[r] = "complete" /\ Concat(emitted[r]) = <<>>)

C4_Witness ==
    \E r \in Converts :
        /\ pc[r] = "done"
        /\ text[r] # <<>>
        /\ style[r] # <<>>
        /\ stream[r] = "complete"
        /\ emitted[r] = << <<>> >>
        /\ body[r] = <<>>

\* C5: a keyword request whose text is empty or only whitespace is answered
\* at once with the empty string, and the list of calls made on the local
\* provider's client is left as it was.
C5_BlankTextNoCall ==
    [][\A r \in Reqs :
          (kind[r] = "none" /\ kind'[r] = "keywords" /\ WhitespaceOnly(text'[r])) =>
              /\ chatCalls' = chatCalls
              /\ callOf'[r] = 0
              /\ keywords'[r] = <<(<<>>)>>
              /\ status'[r] = 200
              /\ pc'[r] = "done"]_vars

C5_Witness ==
    \E r \in KwReqs :
        /\ text[r] = <<" ">>
        /\ pc[r] = "done"
        /\ keywords[r] = <<(<<>>)>>
        /\ callOf[r] = 0
        /\ Len(chatCalls) = 1

\* C6: a keyword request whose text has a non-whitespace character and whose
\* provider call succeeded made exactly one call, carrying its text, and its
\* keywords field is the reply content without leading/trailing whitespace.
C6_TrimmedReply ==
    \A r \in KwReqs :
        (pc[r] = "done" /\ ~WhitespaceOnly(text[r])) =>
            /\ Len(chatCalls) = 1
            /\ callOf[r] = 1
            /\ chatCalls[1].prompt = KeywordPrompt(text[r])
            /\ chatCalls[1].reply.state = "ok"
            /\ status[r] = 200
            /\ Len(keywords[r]) = 1
            /\ IsTrimOf(keywords[r][1], chatCalls[1].reply.content)

C6_Witness ==
    \E r \in KwReqs :
        /\ pc[r] = "done"
        /\ text[r] = <<"a", " ">>
        /\ chatCalls[1].reply = Reply(<<"b", " ">>)
        /\ keywords[r] = << <<"b">> >>

\* C7: a keyword request whose provider call failed never gets a keywords
\* response: once resumed it has ended in an unhandled fault answered 500.
C7_ChatFaultUnhandled ==
    \A r \in KwReqs :
        (callOf[r] # 0 /\ chatCalls[callOf[r]].reply.state = "failed") =>
            /\ keywords[r] = <<>>
            /\ pc[r] \in {"await_chat", "fault"}
            /\ pc[r] = "fault" => status[r] = 500
            /\ pc[r] = "await_chat" => status[r] = 0

C7_Witness ==
    \E r \in KwReqs :
        /\ pc[r] = "fault"
        /\ status[r] = 500
        /\ chatCalls[callOf[r]].reply = Failed

\* C8: when the API key is unset or empty, no route is ever registered, the
\* app is never served and no request is ever handled; the import stops at
\* the key check.
C8_NoKeyNoService ==
    KeyAbsent =>
        /\ mainpc \in {"import", "failed"}
        /\ routes = {}
        /\ ~clientReady
        /\ \A r \in Reqs : pc[r] = "idle" /\ kind[r] = "none" /\ status[r] = 0

C8_Witness ==
    /\ env.set
    /\ env.value = ""
    /\ mainpc = "failed"

\* C9: the relay holds at most one received fragment that it has not yet
\* forwarded, and whenever it asks the provider for the next chunk every
\* fragment received so far is already in the response.
C9_ForwardBeforeNextPull ==
    \A r \in Converts :
        /\ Len(Fragments(emitted[r])) - Len(Fragments(body[r])) <= 1
        /\ pc[r] = "iter" => body[r] = Fragments(emitted[r])
        /\ pc[r] = "got" =>
            /\ chunk[r] = emitted[r][Len(emitted[r])]
            /\ body[r] = Fragments(SubSeq(emitted[r], 1, Len(emitted[r]) - 1))

C9_Witness ==
    \E r \in Converts :
        /\ pc[r] = "got"
        /\ emitted[r] = << <<"a">>, <<"b">> >>
        /\ chunk[r] = <<"b">>
        /\ body[r] = << <<"a">> >>

\* C10: with several requests in flight, every conversion's body is made of
\* its own stream's fragments, plus the fallback only if its own stream
\* failed; a conversion ends only when its own stream ended or failed; every
\* keyword request is answered from the chat call it made itself.
C10_Isolation ==
    /\ \A r \in Converts :
        /\ body[r] = Fragments(IF pc[r] = "got"
                               THEN SubSeq(emitted[r], 1, Len(emitted[r]) - 1)
                               ELSE emitted[r])
                     \o (IF pc[r] = "done" /\ stream[r] \in StreamFaults
                         THEN <<FALLBACK>> ELSE <<>>)
        /\ pc[r] = "done" => stream[r] \in StreamFaults \cup {"complete"}
        /\ gprompt[r] # <<>> => gprompt[r][1] = ConvertPrompt(text[r], style[r])
    /\ \A r \in KwReqs :
        /\ callOf[r] # 0 =>
            /\ chatCalls[callOf[r]].prompt = KeywordPrompt(text[r])
            /\ \A q \in KwReqs : callOf[q] = callOf[r] => q = r
        /\ (pc[r] = "done" /\ callOf[r] # 0) =>
            /\ chatCalls[callOf[r]].reply.state = "ok"
            /\ Len(keywords[r]) = 1
            /\ IsTrimOf(keywords[r][1], chatCalls[callOf[r]].reply.content)
        /\ pc[r] = "fault" => chatCalls[callOf[r]].reply.state = "failed"

C10_Witness ==
    \E r1, r2 \in Converts :
        /\ r1 # r2
        /\ stream[r1] = "fault_stream"
        /\ pc[r1] = "done"
        /\ body[r1] = << <<"a">>, FALLBACK >>
        /\ stream[r2] = "open"
        /\ pc[r2] = "iter"
        /\ body[r2] = << <<"b">> >>

====
